---------------------------- MODULE Spec2Model ----------------------------
(***************************************************************************)
(* Model of the IQAir cloud command client (iqair_cloud/api.py): the       *)
(* gRPC-Web-Text frame codec (_build_payload, _decode_grpc_response), the  *)
(* response interpreter and the command operations of IQAirApiClient; and   *)
(* of what calls them: the fan, switch and select entities, the connection *)
(* validation of the setup flow and the polling coordinator with the       *)
(* snapshot it caches.                                                     *)
(*                                                                         *)
(* Representation.                                                         *)
(*   byte            an integer in 0..255                                  *)
(*   bytes           a sequence of bytes                                   *)
(*   str (serial)    a sequence of Unicode code points                     *)
(*   str (body text) a sequence of characters of a base64 text, coded as   *)
(*                   0..63 the base64 alphabet (the value of the sextet),  *)
(*                   PAD '=', NL '\n', JUNK an ASCII character outside the *)
(*                   alphabet, NONASCII a character above U+007F           *)
(*   Optional[x]     [some |-> BOOLEAN, val |-> x]                         *)
(*   dict            a function from keys (strings) to values              *)
(*   dict object     [obj |-> identity, val |-> dict]: a new object has    *)
(*                   another identity; mutating an object changes val and  *)
(*                   keeps obj                                             *)
(***************************************************************************)
EXTENDS Integers, Sequences, FiniteSets, Bags, TLC

VARIABLES
    serial_number,  \* IQAirApiClient._serial_number (Optional[str])
    pc,             \* position of the caller in the operation in progress
    call,           \* the operation in progress and its arguments
    posted,         \* the HTTP POSTs issued by the operation in progress
    result,         \* what the operation returned (or raised) to its caller
    data,                 \* IQAirDataUpdateCoordinator.data: the cached snapshot
    last_update_success,  \* IQAirDataUpdateCoordinator.last_update_success
    commands,             \* entity handlers awaiting the answer of their POST
    refreshing,           \* a refresh of the coordinator awaits the answer of its GET
    event,                \* the last step of a handler: what it was given and did
    history               \* history kept for the properties about sequences of steps

vars ==
    <<serial_number, pc, call, posted, result,
      data, last_update_success, commands, refreshing, event, history>>

\* the state of the coordinator and of the handlers that use it
coordinatorVars == <<data, last_update_success, commands, refreshing, event, history>>

---------------------------------------------------------------------------
(* Bounds of the model. *)

\* longest serial number (in characters) given to the encoder
MaxSnLen == 5

\* longest frame payload (in bytes) in a body text given to the decoder
MaxPayloadLen == 2

\* largest integer argument given to a command (the smallest is -1)
MaxArg == 7

\* most entity handlers awaiting the answer of their POST at the same time
MaxInFlight == 1

---------------------------------------------------------------------------
(* Optional values and generic sequence helpers. *)

None == [some |-> FALSE, val |-> <<>>]

Some(x) == [some |-> TRUE, val |-> x]

\* all sequences over S of length at most n
SeqsUpTo(S, n) == UNION {[1..k -> S] : k \in 0..n}

\* s[i..] (Python s[i-1:]), empty when i is past the end
Tail_(s, i) == SubSeq(s, i, Len(s))

\* Python's truthiness of a str | None
Truthy(opt) == opt.some /\ opt.val # <<>>

\* does s start with p (str.startswith)
StartsWith(s, p) == Len(s) >= Len(p) /\ SubSeq(s, 1, Len(p)) = p


---------------------------------------------------------------------------
(* Python library functions the client uses, computed as the library      *)
(* computes them.                                                          *)

\* the characters of a body text that are not base64 sextets
PAD == 64

NL == 65

JUNK == 66

NONASCII == 67

\* [A-Za-z0-9+/]
IsB64Char(c) == c \in 0..63

\* the device-id prefix "UI2_" as code points
DevicePrefix == <<85, 73, 50, 95>>

\* str.replace(old, ""): every non-overlapping occurrence of old, scanning
\* from the left, is removed
RECURSIVE StrRemoveAll(_, _)
StrRemoveAll(s, old) ==
    IF s = <<>> THEN <<>>
    ELSE IF StartsWith(s, old) THEN StrRemoveAll(Tail_(s, Len(old) + 1), old)
    ELSE <<Head(s)>> \o StrRemoveAll(Tail(s), old)

\* one code point as UTF-8
Utf8Char(cp) ==
    IF cp < 128 THEN <<cp>>
    ELSE IF cp < 2048 THEN <<192 + (cp \div 64), 128 + (cp % 64)>>
    ELSE IF cp < 65536
        THEN <<224 + (cp \div 4096), 128 + ((cp \div 64) % 64), 128 + (cp % 64)>>
    ELSE <<240 + (cp \div 262144), 128 + ((cp \div 4096) % 64),
           128 + ((cp \div 64) % 64), 128 + (cp % 64)>>

\* str.encode("utf-8")
RECURSIVE Utf8Encode(_)
Utf8Encode(s) ==
    IF s = <<>> THEN <<>> ELSE Utf8Char(Head(s)) \o Utf8Encode(Tail(s))

\* struct.pack(">I", n): four bytes, most significant first
PackU32BE(n) ==
    <<(n \div 16777216) % 256, (n \div 65536) % 256, (n \div 256) % 256, n % 256>>

\* struct.unpack(">I", b)[0]
UnpackU32BE(b) == ((b[1] * 256 + b[2]) * 256 + b[3]) * 256 + b[4]

\* base64.b64encode: three bytes to four sextets, '=' padding at the end
RECURSIVE B64Encode(_)
B64Encode(b) ==
    IF Len(b) = 0 THEN <<>>
    ELSE IF Len(b) = 1
        THEN <<b[1] \div 4, (b[1] % 4) * 16, PAD, PAD>>
    ELSE IF Len(b) = 2
        THEN <<b[1] \div 4, (b[1] % 4) * 16 + (b[2] \div 16), (b[2] % 16) * 4, PAD>>
    ELSE <<b[1] \div 4, (b[1] % 4) * 16 + (b[2] \div 16),
           (b[2] % 16) * 4 + (b[3] \div 64), b[3] % 64>>
         \o B64Encode(Tail_(b, 4))

\* binascii.a2b_base64 (not strict): characters outside the alphabet are
\* skipped, a complete pad sequence ends the data and what follows it is
\* ignored, a dangling quad is an error
RECURSIVE A2bBase64(_, _, _, _, _, _)
A2bBase64(t, i, quad_pos, leftchar, pads, out) ==
    IF i > Len(t)
    THEN IF quad_pos # 0
         THEN [ok |-> FALSE, exc |-> "binascii.Error", bytes |-> <<>>]
         ELSE [ok |-> TRUE, exc |-> "", bytes |-> out]
    ELSE LET c == t[i] IN
         IF c = PAD
         THEN IF quad_pos >= 2 /\ quad_pos + pads + 1 >= 4
              THEN [ok |-> TRUE, exc |-> "", bytes |-> out]
              ELSE A2bBase64(t, i + 1, quad_pos, leftchar,
                             IF quad_pos >= 2 THEN pads + 1 ELSE pads, out)
         ELSE IF ~IsB64Char(c)
         THEN A2bBase64(t, i + 1, quad_pos, leftchar, pads, out)
         ELSE CASE quad_pos = 0 -> A2bBase64(t, i + 1, 1, c, 0, out)
                [] quad_pos = 1 ->
                     A2bBase64(t, i + 1, 2, c % 16, 0,
                               Append(out, leftchar * 4 + (c \div 16)))
                [] quad_pos = 2 ->
                     A2bBase64(t, i + 1, 3, c % 4, 0,
                               Append(out, leftchar * 16 + (c \div 4)))
                [] OTHER ->
                     A2bBase64(t, i + 1, 0, 0, 0, Append(out, leftchar * 64 + c))

\* base64.b64decode(str): the text is first encoded as ASCII (ValueError on
\* any other character), then given to a2b_base64
B64Decode(t) ==
    IF \E i \in 1..Len(t) : t[i] = NONASCII
    THEN [ok |-> FALSE, exc |-> "ValueError", bytes |-> <<>>]
    ELSE A2bBase64(t, 1, 0, 0, 0, <<>>)

\* re.sub(r"(=+)([A-Za-z0-9+/])", r"\1\n\2", s): a newline goes in wherever a
\* run of '=' is directly followed by a base64 character
RECURSIVE Delimit(_)
Delimit(s) ==
    IF Len(s) < 2 THEN s
    ELSE IF s[1] = PAD /\ IsB64Char(s[2])
        THEN <<PAD, NL>> \o Delimit(Tail(s))
    ELSE <<s[1]>> \o Delimit(Tail(s))

\* str.split("\n"): the pieces between newlines, empty pieces included
RECURSIVE SplitNL(_, _)
SplitNL(s, cur) ==
    IF s = <<>> THEN <<cur>>
    ELSE IF Head(s) = NL THEN <<cur>> \o SplitNL(Tail(s), <<>>)
    ELSE SplitNL(Tail(s), Append(cur, Head(s)))

\* [frame for frame in pieces if frame]
NonEmpty(pieces) == SelectSeq(pieces, LAMBDA p : p # <<>>)

\* bytes.decode("utf-8"), strict: the code points, or UnicodeDecodeError
IsCont(b) == b \in 128..191

RECURSIVE Utf8Decode(_, _)
Utf8Decode(b, out) ==
    IF b = <<>> THEN [ok |-> TRUE, cps |-> out]
    ELSE LET b1 == b[1]
             n  == Len(b)
             bad == [ok |-> FALSE, cps |-> <<>>]
         IN
         IF b1 < 128 THEN Utf8Decode(Tail(b), Append(out, b1))
         ELSE IF b1 \in 194..223
         THEN IF n >= 2 /\ IsCont(b[2])
              THEN Utf8Decode(Tail_(b, 3), Append(out, (b1 - 192) * 64 + (b[2] - 128)))
              ELSE bad
         ELSE IF b1 \in 224..239
         THEN IF /\ n >= 3
                 /\ IsCont(b[2])
                 /\ IsCont(b[3])
                 /\ (b1 = 224 => b[2] >= 160)
                 /\ (b1 = 237 => b[2] <= 159)
              THEN Utf8Decode(Tail_(b, 4),
                     Append(out, ((b1 - 224) * 64 + (b[2] - 128)) * 64 + (b[3] - 128)))
              ELSE bad
         ELSE IF b1 \in 240..244
         THEN IF /\ n >= 4
                 /\ IsCont(b[2])
                 /\ IsCont(b[3])
                 /\ IsCont(b[4])
                 /\ (b1 = 240 => b[2] >= 144)
                 /\ (b1 = 244 => b[2] <= 143)
              THEN Utf8Decode(Tail_(b, 5),
                     Append(out, (((b1 - 240) * 64 + (b[2] - 128)) * 64
                                  + (b[3] - 128)) * 64 + (b[4] - 128)))
              ELSE bad
         ELSE bad

\* the code points str.strip() removes
IsSpace(cp) ==
    cp \in (9..13) \cup (28..32) \cup {133, 160, 5760} \cup (8192..8202)
           \cup {8232, 8233, 8239, 8287, 12288}

\* str.strip()
RECURSIVE LStrip(_)
LStrip(s) == IF s # <<>> /\ IsSpace(Head(s)) THEN LStrip(Tail(s)) ELSE s

RECURSIVE RStrip(_)
RStrip(s) ==
    IF s # <<>> /\ IsSpace(s[Len(s)]) THEN RStrip(SubSeq(s, 1, Len(s) - 1)) ELSE s

Strip(s) == RStrip(LStrip(s))

\* f"{b:02x}": the two hexadecimal digits of a byte
Hex02(b) == <<b \div 16, b % 16>>

\* " ".join(f"{b:02x}" for b in payload): one digit pair per byte
HexJoin(payload) == [i \in 1..Len(payload) |-> Hex02(payload[i])]

---------------------------------------------------------------------------
(* The frame codec. *)

\* the identifier placed in the payload: sn_part
SnPart(sn) == Utf8Encode(StrRemoveAll(sn, DevicePrefix))

\* bytearray(list): ValueError unless every item is in range(0, 256)
IsByte(x) == x \in 0..255

\* _build_payload with `if value:` in place of `if value is not None:`
BuildPayloadIfValue(serial, field, value) ==
    IF ~Truthy(serial)
    THEN [raised |-> TRUE, exc |-> "ValueError", text |-> <<>>]
    ELSE LET sn_part == SnPart(serial.val)
             ident == <<10, Len(sn_part)>> \o sn_part
             payload_bytes ==
                 IF value.some /\ value.val # 0
                 THEN ident \o <<field, value.val>>
                 ELSE ident
         IN [raised |-> FALSE, exc |-> "",
             text |-> B64Encode(<<0>> \o PackU32BE(Len(payload_bytes)) \o payload_bytes)]

\* _build_payload without the check of the serial number: a missing serial
\* number is taken as the empty string
BuildPayloadAnySerial(serial, field, value) ==
    LET sn_part == IF Truthy(serial) THEN SnPart(serial.val) ELSE <<>>
        ident == <<10, Len(sn_part)>> \o sn_part
        payload_bytes == IF value.some THEN ident \o <<field, value.val>> ELSE ident
    IN [raised |-> FALSE, exc |-> "",
        text |-> B64Encode(<<0>> \o PackU32BE(Len(payload_bytes)) \o payload_bytes)]

\* IQAirApiClient._build_payload(field, value): the base64 text of the framed
\* payload, or the exception raised
BuildPayload(serial, field, value) ==
    IF ~Truthy(serial)
    THEN [raised |-> TRUE, exc |-> "ValueError", text |-> <<>>]
    ELSE LET sn_part == SnPart(serial.val) IN
         IF ~IsByte(Len(sn_part)) \/ (value.some /\ ~(IsByte(field) /\ IsByte(value.val)))
         THEN [raised |-> TRUE, exc |-> "ValueError", text |-> <<>>]
         ELSE LET ident == <<10, Len(sn_part)>> \o sn_part
                  payload_bytes ==
                      IF value.some THEN ident \o <<field, value.val>> ELSE ident
                  length == Len(payload_bytes)
                  framed_payload == <<0>> \o PackU32BE(length) \o payload_bytes
              IN [raised |-> FALSE, exc |-> "", text |-> B64Encode(framed_payload)]

\* the candidate frames of a body text, as _decode_grpc_response splits it
SplitBase64Frames(base64_string) ==
    LET base64_frames == NonEmpty(SplitNL(Delimit(base64_string), <<>>)) IN
    IF base64_frames = <<>> /\ base64_string # <<>>
    THEN <<base64_string>>
    ELSE base64_frames

\* the classes each exception class derives from (itself included), for the
\* exceptions the client's calls raise
ExcBases(exc) ==
    CASE exc = "binascii.Error"     -> {"binascii.Error", "ValueError", "Exception"}
      [] exc = "UnicodeDecodeError" -> {"UnicodeDecodeError", "UnicodeError",
                                        "ValueError", "Exception"}
      [] exc = "ValueError"         -> {"ValueError", "Exception"}
      [] exc = "IndexError"         -> {"IndexError", "LookupError", "Exception"}
      [] exc = "ConnectError"       -> {"ConnectError", "NetworkError", "TransportError",
                                        "RequestError", "HTTPError", "Exception"}
      [] exc = "ReadTimeout"        -> {"ReadTimeout", "TimeoutException",
                                        "TransportError", "RequestError", "HTTPError",
                                        "Exception"}
      [] exc = "HTTPStatusError"    -> {"HTTPStatusError", "HTTPError", "Exception"}
      [] exc = "JSONDecodeError"    -> {"JSONDecodeError", "ValueError", "Exception"}
      [] exc = "KeyError"           -> {"KeyError", "LookupError", "Exception"}
      [] OTHER                      -> {exc, "Exception"}

\* does an except clause naming `classes` catch exc
Catches(classes, exc) == ExcBases(exc) \cap classes # {}

\* a line of decoded_output; kind "raise" stands for an exception in flight
BlankLine ==
    [kind |-> "", type_str |-> "", type |-> 0, length |-> 0,
     payload_str |-> <<>>, n |-> 0, exc |-> ""]

\* the try body of the loop of _decode_grpc_response for one candidate frame
TryDecodeFrame(frame_b64) ==
    LET dec == B64Decode(frame_b64) IN
    IF ~dec.ok THEN [BlankLine EXCEPT !.kind = "raise", !.exc = dec.exc]
    ELSE LET frame_bytes == dec.bytes IN
         IF Len(frame_bytes) < 5
         THEN [BlankLine EXCEPT !.kind = "too_short", !.n = Len(frame_bytes)]
         ELSE LET frame_type == frame_bytes[1]
                  length == UnpackU32BE(SubSeq(frame_bytes, 2, 5))
                  payload == Tail_(frame_bytes, 6)
                  frame == [BlankLine EXCEPT !.kind = "frame", !.type = frame_type,
                                             !.length = length]
              IN
              IF frame_type = 0
              THEN [frame EXCEPT !.type_str = "DATA",
                                 !.payload_str = HexJoin(payload)]
              ELSE IF frame_type = 128
              THEN LET text == Utf8Decode(payload, <<>>) IN
                   IF text.ok
                   THEN [frame EXCEPT !.type_str = "TRAILERS",
                                      !.payload_str = Strip(text.cps)]
                   ELSE [BlankLine EXCEPT !.kind = "raise",
                                          !.exc = "UnicodeDecodeError"]
              ELSE [frame EXCEPT !.type_str = "Unknown",
                                 !.payload_str = HexJoin(payload)]

\* an except clause that names binascii.Error alone
DecodeOnlyBinasciiErrors == {"binascii.Error"}

\* the classes the loop's except clause names
DecodeExceptClasses == {"Exception"}

\* one pass of the loop: the try body under its except clause
DecodeFrame(frame_b64) ==
    LET line == TryDecodeFrame(frame_b64) IN
    IF line.kind = "raise" /\ Catches(DecodeExceptClasses, line.exc)
    THEN [line EXCEPT !.kind = "error"]
    ELSE line

\* the line returned for an empty body
EmptyResponseBody == [BlankLine EXCEPT !.kind = "empty_body"]

\* the first exception in flight among the lines, if any
FirstRaise(lines) ==
    IF \E i \in 1..Len(lines) : lines[i].kind = "raise"
    THEN LET i == CHOOSE k \in 1..Len(lines) :
                    /\ lines[k].kind = "raise"
                    /\ \A j \in 1..(k - 1) : lines[j].kind # "raise"
         IN Some(lines[i].exc)
    ELSE None

\* _decode_grpc_response(base64_string): the lines of the returned text, one
\* per candidate frame, in order, or the exception that escapes
DecodeGrpcResponse(base64_string) ==
    IF base64_string = <<>>
    THEN [raised |-> FALSE, exc |-> "", lines |-> <<EmptyResponseBody>>]
    ELSE LET base64_frames == SplitBase64Frames(base64_string)
             lines == [i \in 1..Len(base64_frames) |-> DecodeFrame(base64_frames[i])]
             esc == FirstRaise(lines)
         IN IF esc.some
            THEN [raised |-> TRUE, exc |-> esc.val, lines |-> <<>>]
            ELSE [raised |-> FALSE, exc |-> "", lines |-> lines]

---------------------------------------------------------------------------
(* The inputs the codec is applied to. *)

\* 'U', 'I', '2', '_', 'A' and U+00E9 (two bytes in UTF-8)
SerialAlphabet == {85, 73, 50, 95, 65, 233}

\* serial_number: str | None
SerialNumbers == {None} \cup {Some(sn) : sn \in SeqsUpTo(SerialAlphabet, MaxSnLen)}

\* field codes given to _build_payload: the two codes of const.py and the ends
\* of the byte range
EncodeFields == {0, 16, 24, 255}

\* value: int | None
EncodeValues == {None, Some(0), Some(255)}

\* DATA, TRAILERS and an unknown frame type
FrameTypes == {0, 128, 1}

\* a space and a letter
PayloadBytes == {32, 65}

\* frames of at least 5 bytes: type, declared length, payload; the declared
\* length is the payload's or one more
SampleFrames ==
    {<<t>> \o PackU32BE(Len(p) + d) \o p :
        t \in FrameTypes, p \in SeqsUpTo(PayloadBytes, MaxPayloadLen), d \in {0, 1}}

\* pieces of text that are no base64 of a frame that can be rendered: "A=",
\* "AA==" (one byte), "=", a non-ASCII character and "=", a character outside
\* the alphabet, "A", a newline, the base64 of four bytes, and a TRAILERS
\* frame whose payload is not UTF-8
MalformedPieces ==
    {<<0, PAD>>, <<0, 0, PAD, PAD>>, <<PAD>>, <<NONASCII, PAD>>, <<JUNK>>, <<0>>,
     <<NL>>, <<0, 0, 0, 0, 0, 0, PAD, PAD>>, B64Encode(<<128, 0, 0, 0, 1, 255>>)}

\* what a body text is made of
TextParts == {B64Encode(f) : f \in SampleFrames} \cup MalformedPieces \cup {<<>>}

\* body texts given to _decode_grpc_response: two parts, one after the other
DecodeInputs == {p \o q : p \in TextParts, q \in TextParts}

---------------------------------------------------------------------------
(* The codec applied to its inputs. *)

\* no step of a handler yet
NoEvent ==
    [handler |-> "", step |-> "", op |-> "", arg |-> None, endpoint |-> "",
     response |-> [kind |-> "", exc |-> "", status |-> 0],
     content |-> <<>>, result |-> [kind |-> ""], update_data |-> None, outcome |-> "",
     notified |-> FALSE]

\* no coordinator: the client is used on its own
NoCoordinator ==
    /\ data = None
    /\ last_update_success = FALSE
    /\ commands = EmptyBag
    /\ refreshing = FALSE
    /\ event = NoEvent
    /\ history = None

NoCall == [op |-> ""]

NoResult == [kind |-> ""]

\* the caller takes the result of the operation
Return ==
    /\ pc = "done"
    /\ pc' = "idle"
    /\ call' = NoCall
    /\ result' = NoResult
    /\ posted' = <<>>
    /\ UNCHANGED serial_number
    /\ UNCHANGED coordinatorVars

\* a call of _build_payload(field, value)
CallBuildPayload(field, value) ==
    /\ pc = "idle"
    /\ pc' = "done"
    /\ call' = [op |-> "_build_payload", field |-> field, value |-> value]
    /\ result' = BuildPayload(serial_number, field, value)
    /\ UNCHANGED <<serial_number, posted>>
    /\ UNCHANGED coordinatorVars

\* a call of _decode_grpc_response(text)
CallDecodeGrpcResponse(text) ==
    /\ pc = "idle"
    /\ pc' = "done"
    /\ call' = [op |-> "_decode_grpc_response", text |-> text]
    /\ result' = DecodeGrpcResponse(text)
    /\ UNCHANGED <<serial_number, posted>>
    /\ UNCHANGED coordinatorVars

InitEncode ==
    /\ serial_number \in SerialNumbers
    /\ pc = "idle"
    /\ call = NoCall
    /\ posted = <<>>
    /\ result = NoResult
    /\ NoCoordinator

NextEncode ==
    \/ \E field \in EncodeFields, value \in EncodeValues : CallBuildPayload(field, value)
    \/ Return

\* the encoder applied to every serial number, field code and value
SpecEncode == InitEncode /\ [][NextEncode]_vars

InitDecode ==
    /\ serial_number = None
    /\ pc = "idle"
    /\ call = NoCall
    /\ posted = <<>>
    /\ result = NoResult
    /\ NoCoordinator

NextDecode ==
    \/ \E text \in DecodeInputs : CallDecodeGrpcResponse(text)
    \/ Return

\* the decoder applied to every body text
SpecDecode == InitDecode /\ [][NextDecode]_vars

---------------------------------------------------------------------------
(* The command client: const.py and IQAirApiClient. *)

ENDPOINT_FAN_SPEED == "/SetFanSpeed"

ENDPOINT_POWER == "/SetPowerMode"

ENDPOINT_LIGHT_INDICATOR == "/SetLightIndicator"

ENDPOINT_LIGHT_LEVEL == "/SetLightLevel"

ENDPOINT_AUTO_MODE == "/SetAutoMode"

ENDPOINT_AUTO_MODE_PROFILE == "/SetAutoModeProfile"

ENDPOINT_LOCKS == "/SetDefaultLocks"

Endpoints ==
    {ENDPOINT_FAN_SPEED, ENDPOINT_POWER, ENDPOINT_LIGHT_INDICATOR, ENDPOINT_LIGHT_LEVEL,
     ENDPOINT_AUTO_MODE, ENDPOINT_AUTO_MODE_PROFILE, ENDPOINT_LOCKS}

FIELD_POWER == 16

FIELD_FAN_SPEED == 24

FIELD_LIGHT_INDICATOR == 16

FIELD_LIGHT_LEVEL == 16

FIELD_AUTO_MODE == 16

FIELD_AUTO_MODE_PROFILE == 16

FIELD_LOCKS == 16

\* a state delta: a mapping from state keys to values; {} is the empty one
EmptyDelta == [k \in {} |-> 0]

\* what a command operation gives its caller: None, a delta, or an exception
ReturnNone == [kind |-> "None", delta |-> EmptyDelta, exc |-> ""]

ReturnDelta(d) == [kind |-> "delta", delta |-> d, exc |-> ""]

Raise(exc) == [kind |-> "raise", delta |-> EmptyDelta, exc |-> exc]

\* the candidate frames of a body text, as _send_command splits it
ResponseFrames(text) ==
    LET base64_frames == NonEmpty(SplitNL(Delimit(text), <<>>)) IN
    IF base64_frames = <<>> /\ text # <<>> THEN <<text>> ELSE base64_frames

\* the "off" deltas without the one of the locks endpoint
OffDeltaNoLocks(endpoint) ==
    CASE endpoint = ENDPOINT_LIGHT_INDICATOR -> Some([lightIndicatorEnabled |-> FALSE])
      [] endpoint = ENDPOINT_AUTO_MODE       -> Some([autoModeEnabled |-> FALSE])
      [] OTHER                               -> None

\* the "off" delta of a header-only frame, for the three endpoints that have one
OffDelta(endpoint) ==
    CASE endpoint = ENDPOINT_LIGHT_INDICATOR -> Some([lightIndicatorEnabled |-> FALSE])
      [] endpoint = ENDPOINT_AUTO_MODE       -> Some([autoModeEnabled |-> FALSE])
      [] endpoint = ENDPOINT_LOCKS           -> Some([isLocksEnabled |-> FALSE])
      [] OTHER                               -> None

\* new_state for the value byte of a DATA frame
ValueDelta(endpoint, value) ==
    CASE endpoint = ENDPOINT_POWER             -> [powerMode |-> value]
      [] endpoint = ENDPOINT_FAN_SPEED         -> [speedLevel |-> value]
      [] endpoint = ENDPOINT_LIGHT_LEVEL       ->
             [lightLevel |-> value, lightIndicatorEnabled |-> TRUE]
      [] endpoint = ENDPOINT_LIGHT_INDICATOR   -> [lightIndicatorEnabled |-> (value = 1)]
      [] endpoint = ENDPOINT_AUTO_MODE         -> [autoModeEnabled |-> (value = 1)]
      [] endpoint = ENDPOINT_AUTO_MODE_PROFILE -> [autoModeProfile |-> value]
      [] endpoint = ENDPOINT_LOCKS             -> [isLocksEnabled |-> (value = 1)]
      [] OTHER                                 -> EmptyDelta

\* the new state with the value byte read at offset 5 in place of offset 6
FrameDeltaOffset5(endpoint, frame_bytes) ==
    IF Len(frame_bytes) = 5 /\ OffDelta(endpoint).some
    THEN OffDelta(endpoint).val
    ELSE IF Len(frame_bytes) > 6 /\ frame_bytes[1] = 0
    THEN ValueDelta(endpoint, frame_bytes[6])
    ELSE EmptyDelta

\* the new state without the check that the frame is a DATA frame
FrameDeltaAnyType(endpoint, frame_bytes) ==
    IF Len(frame_bytes) = 5 /\ OffDelta(endpoint).some
    THEN OffDelta(endpoint).val
    ELSE IF Len(frame_bytes) > 6
    THEN ValueDelta(endpoint, frame_bytes[7])
    ELSE EmptyDelta

\* the new state parsed from the first frame's bytes
FrameDelta(endpoint, frame_bytes) ==
    IF Len(frame_bytes) = 5 /\ OffDelta(endpoint).some
    THEN OffDelta(endpoint).val
    ELSE IF Len(frame_bytes) > 6 /\ frame_bytes[1] = 0
    THEN ValueDelta(endpoint, frame_bytes[7])
    ELSE EmptyDelta

\* the interpretation with the last candidate frame in place of the first
InterpretResponseLastFrame(endpoint, text) ==
    LET base64_frames == ResponseFrames(text) IN
    IF base64_frames = <<>> THEN ReturnDelta(EmptyDelta)
    ELSE LET dec == B64Decode(base64_frames[Len(base64_frames)]) IN
         IF ~dec.ok THEN Raise(dec.exc)
         ELSE ReturnDelta(FrameDelta(endpoint, dec.bytes))

\* the interpretation with None returned when there is no candidate frame
InterpretResponseNoneWhenEmpty(endpoint, text) ==
    LET base64_frames == ResponseFrames(text) IN
    IF base64_frames = <<>> THEN ReturnNone
    ELSE LET dec == B64Decode(base64_frames[1]) IN
         IF ~dec.ok THEN Raise(dec.exc)
         ELSE ReturnDelta(FrameDelta(endpoint, dec.bytes))

\* "Parse the response to extract the new state": what the try body of
\* _send_command returns, or raises, on the text of a successful response
InterpretResponse(endpoint, text) ==
    LET base64_frames == ResponseFrames(text) IN
    IF base64_frames = <<>> THEN ReturnDelta(EmptyDelta)
    ELSE LET dec == B64Decode(base64_frames[1]) IN
         IF ~dec.ok THEN Raise(dec.exc)
         ELSE ReturnDelta(FrameDelta(endpoint, dec.bytes))

\* an except clause that names neither ValueError nor binascii.Error
SendCommandExceptNoValueError == {"RequestError", "IndexError"}

\* the classes the except clause of _send_command names
SendCommandExceptClasses == {"RequestError", "binascii.Error", "IndexError", "ValueError"}

\* response.raise_for_status() raises unless the status is 2xx
IsSuccess(status) == status \in 200..299

NoResponse == [kind |-> "", exc |-> "", status |-> 0, text |-> <<>>]

\* the post raised exc (a network failure)
PostRaised(exc) == [NoResponse EXCEPT !.kind = "raised", !.exc = exc]

\* the post returned a response with this status and body text
PostReturned(status, text) ==
    [NoResponse EXCEPT !.kind = "response", !.status = status, !.text = text]

\* the try body of _send_command, given what the post did
TrySendCommand(endpoint, response) ==
    IF response.kind = "raised" THEN Raise(response.exc)
    ELSE IF ~IsSuccess(response.status) THEN Raise("HTTPStatusError")
    ELSE LET decoded_response == DecodeGrpcResponse(response.text) IN
         IF decoded_response.raised THEN Raise(decoded_response.exc)
         ELSE InterpretResponse(endpoint, response.text)

\* _send_command(endpoint, payload) from the answer of the post on
SendCommand(endpoint, response) ==
    LET r == TrySendCommand(endpoint, response) IN
    IF r.kind = "raise" /\ Catches(SendCommandExceptClasses, r.exc)
    THEN ReturnNone
    ELSE r

\* a command operation up to its await: the argument check, the payload, the
\* POST. `valid` is the operation's own argument check.
IssueCommand(op, arg, valid, field, value, endpoint) ==
    /\ pc = "idle"
    /\ LET p == BuildPayload(serial_number, field, value) IN
       IF ~valid
       THEN /\ pc' = "done"
            /\ result' = ReturnNone
            /\ posted' = posted
            /\ call' = [op |-> op, arg |-> arg, endpoint |-> "", response |-> NoResponse]
       ELSE IF p.raised
       THEN /\ pc' = "done"
            /\ result' = Raise(p.exc)
            /\ posted' = posted
            /\ call' = [op |-> op, arg |-> arg, endpoint |-> "", response |-> NoResponse]
       ELSE /\ pc' = "awaiting"
            /\ result' = NoResult
            /\ posted' = Append(posted, [endpoint |-> endpoint, content |-> p.text])
            /\ call' = [op |-> op, arg |-> arg, endpoint |-> endpoint,
                        response |-> NoResponse]
    /\ UNCHANGED serial_number
    /\ UNCHANGED coordinatorVars

\* set_power with "off" sent as an absent field, as the other boolean commands
SetPowerOffAbsent(is_on) ==
    IssueCommand("set_power", is_on, TRUE, FIELD_POWER,
                 IF is_on THEN Some(2) ELSE None, ENDPOINT_POWER)

\* set_power(is_on)
SetPower(is_on) ==
    IssueCommand("set_power", is_on, TRUE, FIELD_POWER,
                 Some(IF is_on THEN 2 ELSE 3), ENDPOINT_POWER)

\* the fan speed check with 0 let through
ValidFanSpeedFromZero(speed_level) == 0 <= speed_level /\ speed_level <= 6

ValidFanSpeed(speed_level) == 1 <= speed_level /\ speed_level <= 6

\* set_fan_speed(speed_level)
SetFanSpeed(speed_level) ==
    IssueCommand("set_fan_speed", speed_level, ValidFanSpeed(speed_level),
                 FIELD_FAN_SPEED, Some(speed_level), ENDPOINT_FAN_SPEED)

\* set_light_indicator(is_on)
SetLightIndicator(is_on) ==
    IssueCommand("set_light_indicator", is_on, TRUE, FIELD_LIGHT_INDICATOR,
                 IF is_on THEN Some(1) ELSE None, ENDPOINT_LIGHT_INDICATOR)

ValidLightLevel(level) == level \in {1, 2, 3}

\* set_light_level(level)
SetLightLevel(level) ==
    IssueCommand("set_light_level", level, ValidLightLevel(level),
                 FIELD_LIGHT_LEVEL, Some(level), ENDPOINT_LIGHT_LEVEL)

\* set_auto_mode(is_on)
SetAutoMode(is_on) ==
    IssueCommand("set_auto_mode", is_on, TRUE, FIELD_AUTO_MODE,
                 IF is_on THEN Some(1) ELSE None, ENDPOINT_AUTO_MODE)

ValidAutoModeProfile(profile_id) == profile_id \in {1, 2, 3}

\* set_auto_mode_profile(profile_id)
SetAutoModeProfile(profile_id) ==
    IssueCommand("set_auto_mode_profile", profile_id, ValidAutoModeProfile(profile_id),
                 FIELD_AUTO_MODE_PROFILE, Some(profile_id), ENDPOINT_AUTO_MODE_PROFILE)

\* set_lock(is_on)
SetLock(is_on) ==
    IssueCommand("set_lock", is_on, TRUE, FIELD_LOCKS,
                 IF is_on THEN Some(1) ELSE None, ENDPOINT_LOCKS)

\* the rest of _send_command once the post has ended with `response`
CompleteCommand(response) ==
    /\ pc = "awaiting"
    /\ pc' = "done"
    /\ call' = [call EXCEPT !.response = response]
    /\ result' = SendCommand(call.endpoint, response)
    /\ UNCHANGED <<serial_number, posted>>
    /\ UNCHANGED coordinatorVars

---------------------------------------------------------------------------
(* What the cloud and the network may answer. *)

\* integer arguments given to the commands
CommandArgs == (-1)..MaxArg

\* httpx exceptions of a failed request (subclasses of httpx.RequestError)
NetworkFailures == {"ConnectError", "ReadTimeout"}

\* statuses of a response: two 2xx, and some that are not
SuccessStatuses == {200, 204}

ErrorStatuses == {301, 401, 404, 500}

\* value bytes of a response frame
ResponseValues == {0, 1, 2, 3, 6, 7}

\* payloads of a response frame: none, a tag alone, a tag and a value, and a
\* tag, a value and one more byte
ResponsePayloads ==
    {<<>>, <<8>>} \cup {<<8, v>> : v \in ResponseValues}
                  \cup {<<8, v, 16>> : v \in ResponseValues}

\* the frames of a response: DATA or TRAILERS frames, and two cut short
ResponseFramesSent ==
    {<<t>> \o PackU32BE(Len(p)) \o p : t \in {0, 128}, p \in ResponsePayloads}
        \cup {<<0>>, <<0, 0, 0, 0>>}

\* the TRAILERS frame that ends a response
TrailersFrame == <<128, 0, 0, 0, 2, 1, 1>>

\* texts that are no base64 of frames: "A", a non-ASCII character, "A=" and a
\* newline
MalformedBodies == {<<0>>, <<NONASCII>>, <<0, PAD>>, <<NL>>}

\* the body texts of successful responses: nothing, one frame, one frame and
\* the trailers, a malformed text, and a malformed text before or after a frame
ResponseBodies ==
    {<<>>} \cup {B64Encode(f) : f \in ResponseFramesSent}
           \cup {B64Encode(f) \o B64Encode(TrailersFrame) : f \in ResponseFramesSent}
           \cup MalformedBodies
           \cup {<<0, PAD>> \o B64Encode(f) : f \in ResponseFramesSent}
           \cup {B64Encode(f) \o <<0>> : f \in ResponseFramesSent}

\* the serial numbers of the clients: unset, empty, with and without the prefix
ClientSerials == {None, Some(<<>>), Some(DevicePrefix \o <<65, 50>>), Some(<<65, 50>>)}

\* the post fails on the network
PostFails(exc) == CompleteCommand(PostRaised(exc))

\* the post is answered with a status that is not 2xx
PostRejected(status) == CompleteCommand(PostReturned(status, <<>>))

\* the post is answered with a 2xx status and a body text
PostSucceeds(status, text) == CompleteCommand(PostReturned(status, text))

Init ==
    /\ serial_number \in ClientSerials
    /\ pc = "idle"
    /\ call = NoCall
    /\ posted = <<>>
    /\ result = NoResult
    /\ NoCoordinator

Next ==
    \/ \E is_on \in BOOLEAN : SetPower(is_on)
    \/ \E speed_level \in CommandArgs : SetFanSpeed(speed_level)
    \/ \E is_on \in BOOLEAN : SetLightIndicator(is_on)
    \/ \E level \in CommandArgs : SetLightLevel(level)
    \/ \E is_on \in BOOLEAN : SetAutoMode(is_on)
    \/ \E profile_id \in CommandArgs : SetAutoModeProfile(profile_id)
    \/ \E is_on \in BOOLEAN : SetLock(is_on)
    \/ \E exc \in NetworkFailures : PostFails(exc)
    \/ \E status \in ErrorStatuses : PostRejected(status)
    \/ \E status \in SuccessStatuses, text \in ResponseBodies : PostSucceeds(status, text)
    \/ Return

\* the command client: commands, each ended by what the post does
Spec == Init /\ [][Next]_vars

---------------------------------------------------------------------------
(* The state fetch of IQAirApiClient and its two callers: the connection   *)
(* validation of the setup flow and the refresh of the coordinator.        *)

\* dict.get(key): the value, or None
DictGet(d, key) == IF key \in DOMAIN d THEN Some(d[key]) ELSE None

\* dict.update(other), as a value: the keys of other set, the rest kept
DictUpdate(d, other) ==
    [k \in DOMAIN d \cup DOMAIN other |-> IF k \in DOMAIN other THEN other[k] ELSE d[k]]

\* the GET raised exc (a network failure)
GetRaised(exc) == [kind |-> "raised", exc |-> exc, status |-> 0, json |-> None]

\* the GET returned a response: its status and its body as JSON (None when
\* the body is no JSON and response.json() raises)
GetReturned(status, json) ==
    [kind |-> "response", exc |-> "", status |-> status, json |-> json]

\* what a coroutine of the state fetch gives its caller: a value, or an
\* exception (with the status of the response it carries, for HTTPStatusError)
FetchReturn(value) == [kind |-> "return", value |-> value, exc |-> "", status |-> 0]

FetchRaise(exc, status) == [kind |-> "raise", value |-> None, exc |-> exc, status |-> status]

\* the try body of async_get_devices, given what the GET did
TryGetDevices(response) ==
    IF response.kind = "raised" THEN FetchRaise(response.exc, 0)
    ELSE IF ~IsSuccess(response.status)
    THEN FetchRaise("HTTPStatusError", response.status)
    ELSE IF ~response.json.some THEN FetchRaise("JSONDecodeError", 0)
    ELSE FetchReturn(response.json.val)

\* the classes the except clause of async_get_devices names
GetDevicesExceptClasses == {"RequestError", "HTTPStatusError", "ValueError"}

\* async_get_devices(): the list of devices, [] on an error it catches
GetDevices(response) ==
    LET r == TryGetDevices(response) IN
    IF r.kind = "raise" /\ Catches(GetDevicesExceptClasses, r.exc)
    THEN FetchReturn(<<>>)
    ELSE r

\* async_get_device_state(device_id): the first device with this id, or None
GetDeviceState(device_id, response) ==
    LET devices == GetDevices(response) IN
    IF devices.kind = "raise" THEN devices
    ELSE LET matching ==
                 SelectSeq(devices.value,
                           LAMBDA device : DictGet(device, "id") = Some(device_id))
         IN FetchReturn(IF matching = <<>> THEN None ELSE Some(matching[1]))

\* validate_connection(hass, login_token, user_id) of the setup flow
ValidateConnection(response) ==
    LET devices == GetDevices(response) IN
    IF devices.kind = "raise"
    THEN IF Catches({"HTTPStatusError"}, devices.exc)
         THEN IF devices.status = 401
              THEN FetchRaise("InvalidAuth", 0)
              ELSE FetchRaise("CannotConnect", 0)
         ELSE IF Catches({"RequestError"}, devices.exc)
         THEN FetchRaise("CannotConnect", 0)
         ELSE devices
    ELSE IF devices.value = <<>> THEN FetchRaise("NoDevicesFound", 0)
    ELSE devices

\* IQAirDataUpdateCoordinator._async_update_data()
AsyncUpdateData(device_id, response) ==
    LET d == GetDeviceState(device_id, response) IN
    IF d.kind = "raise"
    THEN IF Catches({"InvalidAuth"}, d.exc)
         THEN FetchRaise("ConfigEntryAuthFailed", 0)
         ELSE d
    ELSE IF ~d.value.some \/ d.value.val = EmptyDelta
    THEN FetchRaise("UpdateFailed", 0)
    ELSE FetchReturn(d.value.val)

---------------------------------------------------------------------------
(* The coordinator's snapshot and the entities that send commands.         *)

\* entry.data[CONF_DEVICE_ID]
DeviceId == "dev1"

\* the identity of a new dict object, given the one the coordinator holds
NewObject(snapshot) == 1 - snapshot.obj

\* new_data["remote"].update(update_data) with the whole of "remote" replaced
\* by the delta
UpdateFromCommandReplace(snapshot, update_data) ==
    IF snapshot.val # EmptyDelta /\ update_data # EmptyDelta
    THEN IF "remote" \in DOMAIN snapshot.val
         THEN [kind |-> "published", exc |-> "",
               data |-> [obj |-> NewObject(snapshot),
                         val |-> [snapshot.val EXCEPT !.remote = update_data]]]
         ELSE [kind |-> "raise", exc |-> "KeyError", data |-> snapshot]
    ELSE [kind |-> "skipped", exc |-> "", data |-> snapshot]

\* update_from_command without `and update_data`: an empty delta is merged
\* and published as any other
UpdateFromCommandAnyDelta(snapshot, update_data) ==
    IF snapshot.val # EmptyDelta
    THEN IF "remote" \in DOMAIN snapshot.val
         THEN [kind |-> "published", exc |-> "",
               data |-> [obj |-> NewObject(snapshot),
                         val |-> [snapshot.val EXCEPT
                                     !.remote = DictUpdate(@, update_data)]]]
         ELSE [kind |-> "raise", exc |-> "KeyError", data |-> snapshot]
    ELSE [kind |-> "skipped", exc |-> "", data |-> snapshot]

\* update_from_command publishing after the first key it sets: what the
\* listeners are given is the snapshot with one key of the delta set
UpdateFromCommandKeyByKey(snapshot, update_data) ==
    IF snapshot.val # EmptyDelta /\ update_data # EmptyDelta
    THEN IF "remote" \in DOMAIN snapshot.val
         THEN LET k == CHOOSE x \in DOMAIN update_data : TRUE
              IN [kind |-> "published", exc |-> "",
                  data |-> [obj |-> NewObject(snapshot),
                            val |-> [snapshot.val EXCEPT
                                        !.remote = DictUpdate(@, [j \in {k} |-> update_data[j]])]]]
         ELSE [kind |-> "raise", exc |-> "KeyError", data |-> snapshot]
    ELSE [kind |-> "skipped", exc |-> "", data |-> snapshot]

\* IQAirDataUpdateCoordinator.update_from_command(update_data): the snapshot
\* the coordinator holds afterwards, and whether it was published to the
\* listeners (async_set_updated_data), skipped, or an exception raised
UpdateFromCommand(snapshot, update_data) ==
    IF snapshot.val # EmptyDelta /\ update_data # EmptyDelta
    THEN IF "remote" \in DOMAIN snapshot.val
         THEN [kind |-> "published", exc |-> "",
               data |-> [obj |-> NewObject(snapshot),
                         val |-> [snapshot.val EXCEPT
                                     !.remote = DictUpdate(@, update_data)]]]
         ELSE [kind |-> "raise", exc |-> "KeyError", data |-> snapshot]
    ELSE [kind |-> "skipped", exc |-> "", data |-> snapshot]

\* fan.py: SPEED_COUNT
SPEED_COUNT == 6

\* const.py: LIGHT_LEVEL_MAP and AUTO_MODE_PROFILE_MAP, ids 1..3 to names
LIGHT_LEVEL_MAP == <<"Low", "Medium", "High">>

AUTO_MODE_PROFILE_MAP == <<"Quiet", "Balanced", "Max">>

\* next((k for k, v in map.items() if v == option), None)
KeyOf(map, option) ==
    IF \E k \in DOMAIN map : map[k] = option
    THEN Some(CHOOSE k \in DOMAIN map : map[k] = option)
    ELSE None

\* the level rounded down: math.floor in the place of math.ceil
SpeedLevelOfFloor(percentage) ==
    LET speed_level == (percentage * SPEED_COUNT) \div 100
        capped == IF speed_level < SPEED_COUNT THEN speed_level ELSE SPEED_COUNT
    IN IF capped > 1 THEN capped ELSE 1

\* math.ceil(percentage / 100 * SPEED_COUNT), then max(1, min(SPEED_COUNT, .))
SpeedLevelOf(percentage) ==
    LET speed_level == -((-(percentage * SPEED_COUNT)) \div 100)
        capped == IF speed_level < SPEED_COUNT THEN speed_level ELSE SPEED_COUNT
    IN IF capped > 1 THEN capped ELSE 1

\* the set_* command `op` of the client called with `arg`: its argument
\* check, and the field, value and endpoint of its request
ApiCommand(op, arg) ==
    CASE op = "set_power" ->
             [valid |-> TRUE, field |-> FIELD_POWER,
              value |-> Some(IF arg THEN 2 ELSE 3), endpoint |-> ENDPOINT_POWER]
      [] op = "set_fan_speed" ->
             [valid |-> ValidFanSpeed(arg), field |-> FIELD_FAN_SPEED,
              value |-> Some(arg), endpoint |-> ENDPOINT_FAN_SPEED]
      [] op = "set_light_indicator" ->
             [valid |-> TRUE, field |-> FIELD_LIGHT_INDICATOR,
              value |-> IF arg THEN Some(1) ELSE None,
              endpoint |-> ENDPOINT_LIGHT_INDICATOR]
      [] op = "set_light_level" ->
             [valid |-> ValidLightLevel(arg), field |-> FIELD_LIGHT_LEVEL,
              value |-> Some(arg), endpoint |-> ENDPOINT_LIGHT_LEVEL]
      [] op = "set_auto_mode" ->
             [valid |-> TRUE, field |-> FIELD_AUTO_MODE,
              value |-> IF arg THEN Some(1) ELSE None, endpoint |-> ENDPOINT_AUTO_MODE]
      [] op = "set_auto_mode_profile" ->
             [valid |-> ValidAutoModeProfile(arg), field |-> FIELD_AUTO_MODE_PROFILE,
              value |-> Some(arg), endpoint |-> ENDPOINT_AUTO_MODE_PROFILE]
      [] op = "set_lock" ->
             [valid |-> TRUE, field |-> FIELD_LOCKS,
              value |-> IF arg THEN Some(1) ELSE None, endpoint |-> ENDPOINT_LOCKS]

\* kind, exception and status of the answer of a request
Summary(response) ==
    [kind |-> response.kind, exc |-> response.exc, status |-> response.status]

\* The history, when one is kept (history.some): `calls`, for each handler
\* that awaits the answer of its POST, the handler, the command it called and
\* whether the refresh now in flight was in flight when it posted; and
\* `commanded`, the keys those calls have set in the snapshot since, with
\* the values they set. (history = None: no history is kept.)
\* a handler posts the request of the command `op`
Issued(h, handler, op, value, endpoint) ==
    IF h.some
    THEN Some([h.val EXCEPT !.calls =
                   @ (+) SetToBag({[handler |-> handler, op |-> op, value |-> value,
                                    endpoint |-> endpoint, during_fetch |-> refreshing]})])
    ELSE h

\* the calls one of which an answer to a POST to `endpoint` resumes
AwaitingAt(h, endpoint) ==
    IF h.some
    THEN {task \in BagToSet(h.val.calls) : task.endpoint = endpoint}
    ELSE {[handler |-> "", op |-> "", value |-> None, endpoint |-> endpoint,
           during_fetch |-> FALSE]}

\* the call `task` is over; update_from_command has published its delta
\* (`merged`) or has not been called or has published nothing (None)
Resumed(h, task, merged) ==
    IF h.some
    THEN Some([calls |-> h.val.calls (-) SetToBag({task}),
               commanded |->
                   IF ~merged.some THEN h.val.commanded
                   ELSE IF task.during_fetch
                   THEN DictUpdate(h.val.commanded, merged.val)
                   ELSE [k \in DOMAIN h.val.commanded \ DOMAIN merged.val |->
                            h.val.commanded[k]]])
    ELSE h

\* the refresh in flight is over: no call was posted during the fetch of a
\* refresh now in flight, and nothing has been commanded since
Refreshed(h) ==
    IF h.some
    THEN LET after(task) == [task EXCEPT !.during_fetch = FALSE]
             tasks == BagToSet(h.val.calls)
         IN Some([calls |-> [t \in {after(task) : task \in tasks} |->
                                BagCardinality(
                                    [task \in {x \in tasks : after(x) = t} |->
                                        h.val.calls[task]])],
                  commanded |-> EmptyDelta])
    ELSE h

\* (a handler runs when no other is running: event = NoEvent)
\* an entity handler from its call to the await of the POST of the command
\* `op`: the command returns None at once when its argument check fails,
\* _build_payload raises through the handler, or the request is posted
EntityCommand(handler, op, arg) ==
    LET c == ApiCommand(op, arg)
        p == BuildPayload(serial_number, c.field, c.value)
        e == [NoEvent EXCEPT !.handler = handler, !.step = "call", !.op = op,
                             !.arg = Some(arg)]
    IN
    /\ event = NoEvent
    /\ BagCardinality(commands) < MaxInFlight
    /\ IF ~c.valid
       THEN /\ event' = [e EXCEPT !.result = ReturnNone, !.outcome = "returned"]
            /\ commands' = commands
            /\ history' = history
       ELSE IF p.raised
       THEN /\ event' = [e EXCEPT !.result = Raise(p.exc), !.outcome = p.exc]
            /\ commands' = commands
            /\ history' = history
       ELSE /\ event' = [e EXCEPT !.endpoint = c.endpoint, !.content = p.text,
                                  !.outcome = "awaiting"]
            /\ commands' = commands (+) SetToBag({c.endpoint})
            /\ history' = Issued(history, handler, op, c.value, c.endpoint)
    /\ UNCHANGED <<data, last_update_success, refreshing>>
    /\ UNCHANGED <<serial_number, pc, call, posted, result>>

\* a handler that returns without calling a command
NoCommand(handler) ==
    /\ event = NoEvent
    /\ event' = [NoEvent EXCEPT !.handler = handler, !.step = "call",
                                !.outcome = "returned"]
    /\ UNCHANGED <<data, last_update_success, commands, refreshing, history>>
    /\ UNCHANGED <<serial_number, pc, call, posted, result>>

\* IQAirFan.async_turn_off()
FanTurnOffFrom(handler) == EntityCommand(handler, "set_power", FALSE)

\* IQAirFan.async_set_percentage(percentage)
FanSetPercentageFrom(handler, percentage) ==
    IF percentage = 0
    THEN FanTurnOffFrom(handler)
    ELSE EntityCommand(handler, "set_fan_speed", SpeedLevelOf(percentage))

\* IQAirFan.async_turn_on(percentage)
FanTurnOn(percentage) ==
    IF percentage.some
    THEN FanSetPercentageFrom("fan.async_turn_on", percentage.val)
    ELSE EntityCommand("fan.async_turn_on", "set_power", TRUE)

FanTurnOff == FanTurnOffFrom("fan.async_turn_off")

FanSetPercentage(percentage) ==
    FanSetPercentageFrom("fan.async_set_percentage", percentage)

\* switch.py: SWITCH_TYPES, the key of each description
SwitchKeys == {"auto_mode", "control_panel_lock", "display_light"}

\* the command of the switch with this key
SwitchOp(key) ==
    CASE key = "auto_mode"          -> "set_auto_mode"
      [] key = "control_panel_lock" -> "set_lock"
      [] key = "display_light"      -> "set_light_indicator"

\* IQAirSwitch.async_turn_on() of the switch with this key
SwitchTurnOn(key) == EntityCommand("switch.async_turn_on", SwitchOp(key), TRUE)

\* IQAirSwitch.async_turn_off()
SwitchTurnOff(key) == EntityCommand("switch.async_turn_off", SwitchOp(key), FALSE)

\* IQAirAutoModeProfileSelect.async_select_option(option)
SelectAutoModeProfile(option) ==
    LET profile_id == KeyOf(AUTO_MODE_PROFILE_MAP, option) IN
    IF profile_id.some
    THEN EntityCommand("select.auto_mode_profile.async_select_option",
                       "set_auto_mode_profile", profile_id.val)
    ELSE NoCommand("select.auto_mode_profile.async_select_option")

\* IQAirLightLevelSelect.async_select_option(option)
SelectLightLevel(option) ==
    LET level_id == KeyOf(LIGHT_LEVEL_MAP, option) IN
    IF level_id.some
    THEN EntityCommand("select.light_level.async_select_option",
                       "set_light_level", level_id.val)
    ELSE NoCommand("select.light_level.async_select_option")

\* async_set_percentage, lines 125-137: the speed level the cloud answered is
\* mapped to its percentage in the manSpeedTable of the snapshot
WithSpeedPercent(update_data, snapshot) ==
    LET speed_level_from_api == DictGet(update_data, "speedLevel") IN
    IF speed_level_from_api.some /\ speed_level_from_api.val # 0
       /\ snapshot.val # EmptyDelta
    THEN LET remote == IF "remote" \in DOMAIN snapshot.val
                       THEN snapshot.val.remote ELSE EmptyDelta
             man_speed_table == IF "manSpeedTable" \in DOMAIN remote
                                THEN remote.manSpeedTable ELSE <<>>
         IN IF 0 < speed_level_from_api.val
               /\ speed_level_from_api.val <= Len(man_speed_table)
            THEN DictUpdate(update_data,
                            [speedPercent |-> man_speed_table[speed_level_from_api.val]])
            ELSE update_data
    ELSE update_data

\* the rest of an entity handler once the POST to `endpoint` has ended with
\* `response`: the command returns, and unless it returned None the handler
\* gives the delta to update_from_command (set_fan_speed is called by
\* async_set_percentage alone, which adds speedPercent first)
CompleteEntityCommand(endpoint, response) ==
    /\ event = NoEvent
    /\ BagIn(endpoint, commands)
    /\ commands' = commands (-) SetToBag({endpoint})
    /\ \E r \in {SendCommand(endpoint, response)} :
       \E e \in {[NoEvent EXCEPT !.step = "answer", !.endpoint = endpoint,
                                 !.response = Summary(response), !.result = r]} :
          IF r.kind # "delta"
          THEN /\ event' = [e EXCEPT !.outcome = IF r.kind = "raise" THEN r.exc
                                                                     ELSE "returned"]
               /\ UNCHANGED <<data, last_update_success>>
               /\ \E task \in AwaitingAt(history, endpoint) :
                      history' = Resumed(history, task, None)
          ELSE \E update_data \in {IF endpoint = ENDPOINT_FAN_SPEED
                                   THEN WithSpeedPercent(r.delta, data)
                                   ELSE r.delta} :
               \E u \in {UpdateFromCommand(data, update_data)} :
                  /\ data' = u.data
                  /\ last_update_success' =
                         IF u.kind = "published" THEN TRUE ELSE last_update_success
                  /\ event' = [e EXCEPT !.update_data = Some(update_data),
                                        !.outcome = IF u.kind = "raise" THEN u.exc
                                                                        ELSE "returned",
                                        !.notified = (u.kind = "published")]
                  /\ \E task \in AwaitingAt(history, endpoint) :
                         history' = Resumed(history, task,
                                             IF u.kind = "published"
                                             THEN Some(update_data) ELSE None)
    /\ UNCHANGED refreshing
    /\ UNCHANGED <<serial_number, pc, call, posted, result>>

\* the coordinator starts a refresh: _async_update_data up to the await of
\* the GET (one refresh at a time)
StartRefresh ==
    /\ event = NoEvent
    /\ ~refreshing
    /\ refreshing' = TRUE
    /\ event' = [NoEvent EXCEPT !.handler = "coordinator._async_update_data",
                                !.step = "call", !.outcome = "awaiting"]
    /\ UNCHANGED <<data, last_update_success, commands, history>>
    /\ UNCHANGED <<serial_number, pc, call, posted, result>>

\* the rest of the refresh once the GET has ended with `response`: the
\* device returned becomes the snapshot and the listeners are told; on an
\* exception the snapshot stays, last_update_success goes False and the
\* listeners are told if it was True
CompleteRefresh(response) ==
    LET r == AsyncUpdateData(DeviceId, response)
        e == [NoEvent EXCEPT !.handler = "coordinator._async_update_data",
                             !.step = "answer", !.response = Summary(response)]
    IN
    /\ event = NoEvent
    /\ refreshing
    /\ refreshing' = FALSE
    /\ IF r.kind = "return"
       THEN /\ data' = [obj |-> NewObject(data), val |-> r.value]
            /\ last_update_success' = TRUE
            /\ event' = [e EXCEPT !.outcome = "returned", !.notified = TRUE]
       ELSE /\ data' = data
            /\ last_update_success' = FALSE
            /\ event' = [e EXCEPT !.outcome = r.exc, !.notified = last_update_success]
    /\ UNCHANGED commands
    /\ history' = Refreshed(history)
    /\ UNCHANGED <<serial_number, pc, call, posted, result>>

\* the setup flow validates the connection: validate_connection with the GET
\* ended with `response`
ValidateConnectionCall(response) ==
    LET r == ValidateConnection(response) IN
    /\ event = NoEvent
    /\ event' = [NoEvent EXCEPT !.handler = "validate_connection", !.step = "answer",
                                !.response = Summary(response),
                                !.outcome = IF r.kind = "raise" THEN r.exc
                                                                ELSE "returned"]
    /\ UNCHANGED <<data, last_update_success, commands, refreshing, history>>
    /\ UNCHANGED <<serial_number, pc, call, posted, result>>

\* the step of the handler is over: control is back in the event loop,
\* which runs one step of one handler at a time
Yield ==
    /\ event # NoEvent
    /\ event' = NoEvent
    /\ UNCHANGED <<data, last_update_success, commands, refreshing, history>>
    /\ UNCHANGED <<serial_number, pc, call, posted, result>>

---------------------------------------------------------------------------
(* What the entities are asked and what the cloud answers them. *)

\* percentages given to the fan: 0, the least, one inside a level, the top of
\* a level and the most
Percentages == {0, 1, 40, 50, 100}

\* options given to the selects: names of both maps, and one of neither
Options == {"Low", "High", "Quiet", "Balanced", "Turbo"}

\* the manSpeedTable of the device: the percentage of each speed level
ManSpeedTable == <<10, 25, 40, 60, 80, 100>>

\* the device as the state API reports it
FullSnapshot ==
    [id |-> DeviceId, modelLabel |-> "HealthPro",
     remote |-> [powerMode |-> 2, speedLevel |-> 2, speedPercent |-> 25,
                 manSpeedTable |-> ManSpeedTable, lightIndicatorEnabled |-> TRUE,
                 lightLevel |-> 2, autoModeEnabled |-> FALSE, autoModeProfile |-> 1,
                 isLocksEnabled |-> FALSE]]

\* the device reported without its "remote" mapping
BareSnapshot == [id |-> DeviceId, modelLabel |-> "HealthPro"]

\* another device of the account
OtherDevice == [id |-> "dev2", modelLabel |-> "Atem", remote |-> [powerMode |-> 3]]

DeviceSnapshots == {FullSnapshot, BareSnapshot}

\* the JSON of a state response: no device, the device, the others first
DeviceLists ==
    {<<>>, <<OtherDevice>>} \cup {<<d>> : d \in DeviceSnapshots}
                            \cup {<<OtherDevice, d>> : d \in DeviceSnapshots}

\* statuses that are not 2xx: 401 Unauthorized and another
RejectedStatuses == {401, 500}

\* the answers of the GET: a network failure, a status that is not 2xx, a
\* body that is no JSON, a list of devices
GetAnswers ==
    {GetRaised(exc) : exc \in NetworkFailures}
        \cup {GetReturned(status, None) : status \in RejectedStatuses}
        \cup {GetReturned(200, None)}
        \cup {GetReturned(200, Some(devices)) : devices \in DeviceLists}

\* the body texts of the successful responses to the entities' commands:
\* nothing, a text that fails to decode, a header-only frame, and a DATA
\* frame with the value 1 followed by the trailers
EntityResponseBodies ==
    {<<>>, <<0>>, B64Encode(<<0, 0, 0, 0, 0>>),
     B64Encode(<<0, 0, 0, 0, 2, 8, 1>>) \o B64Encode(TrailersFrame)}

\* the serial numbers of the clients the entities use
EntitySerials == {None, Some(DevicePrefix \o <<65, 50>>)}

\* the POST of a handler fails on the network
EntityPostFails(endpoint, exc) == CompleteEntityCommand(endpoint, PostRaised(exc))

\* it is answered with a status that is not 2xx
EntityPostRejected(endpoint, status) ==
    CompleteEntityCommand(endpoint, PostReturned(status, <<>>))

\* it is answered with a 2xx status and a body text
EntityPostSucceeds(endpoint, status, text) ==
    CompleteEntityCommand(endpoint, PostReturned(status, text))

\* the integration set up: the first refresh has given the snapshot
InitEntities ==
    /\ serial_number \in EntitySerials
    /\ pc = "idle"
    /\ call = NoCall
    /\ posted = <<>>
    /\ result = NoResult
    /\ data \in {[obj |-> 0, val |-> d] : d \in DeviceSnapshots}
    /\ last_update_success = TRUE
    /\ commands = EmptyBag
    /\ refreshing = FALSE
    /\ event = NoEvent
    /\ history = None

NextEntities ==
    \/ \E percentage \in {None} \cup {Some(n) : n \in Percentages} : FanTurnOn(percentage)
    \/ FanTurnOff
    \/ \E percentage \in Percentages : FanSetPercentage(percentage)
    \/ \E key \in SwitchKeys : SwitchTurnOn(key)
    \/ \E key \in SwitchKeys : SwitchTurnOff(key)
    \/ \E option \in Options : SelectAutoModeProfile(option)
    \/ \E option \in Options : SelectLightLevel(option)
    \/ \E endpoint \in Endpoints, exc \in NetworkFailures : EntityPostFails(endpoint, exc)
    \/ \E endpoint \in Endpoints, status \in RejectedStatuses :
           EntityPostRejected(endpoint, status)
    \/ \E endpoint \in Endpoints, text \in EntityResponseBodies :
           EntityPostSucceeds(endpoint, 200, text)
    \/ StartRefresh
    \/ \E response \in GetAnswers : CompleteRefresh(response)
    \/ \E response \in GetAnswers : ValidateConnectionCall(response)
    \/ Yield

\* the entities, the coordinator and the setup flow over one client
SpecEntities == InitEntities /\ [][NextEntities]_vars

---------------------------------------------------------------------------
(* The fan entity on its own, given every percentage. *)

\* the percentages of a fan: 0 to 100
AllPercentages == 0..100

\* the body texts of the successful responses to the fan: a text that fails
\* to decode, and a DATA frame that carries a value (a power mode or a speed
\* level) followed by the trailers
FanResponseBodies ==
    {<<0>>} \cup {B64Encode(<<0, 0, 0, 0, 2, 8, v>>) \o B64Encode(TrailersFrame) :
                     v \in 1..SPEED_COUNT}

NextFan ==
    \/ \E percentage \in {None} \cup {Some(n) : n \in AllPercentages} : FanTurnOn(percentage)
    \/ FanTurnOff
    \/ \E percentage \in AllPercentages : FanSetPercentage(percentage)
    \/ \E endpoint \in {ENDPOINT_POWER, ENDPOINT_FAN_SPEED}, exc \in NetworkFailures :
           EntityPostFails(endpoint, exc)
    \/ \E endpoint \in {ENDPOINT_POWER, ENDPOINT_FAN_SPEED}, text \in FanResponseBodies :
           EntityPostSucceeds(endpoint, 200, text)
    \/ StartRefresh
    \/ \E response \in GetAnswers : CompleteRefresh(response)
    \/ Yield

\* the fan entity and the coordinator over one client
SpecFan == InitEntities /\ [][NextFan]_vars

\* IQAirFan.is_on, with available (None as a value is "unknown")
IsOn(snapshot, available) ==
    IF ~available \/ snapshot = None
    THEN None
    ELSE LET remote == IF "remote" \in DOMAIN snapshot.val
                       THEN snapshot.val.remote ELSE EmptyDelta
         IN Some(DictGet(remote, "powerMode") = Some(2))

\* the same set up, with the history kept
InitFanHistory ==
    /\ serial_number \in EntitySerials
    /\ pc = "idle"
    /\ call = NoCall
    /\ posted = <<>>
    /\ result = NoResult
    /\ data \in {[obj |-> 0, val |-> d] : d \in DeviceSnapshots}
    /\ last_update_success = TRUE
    /\ commands = EmptyBag
    /\ refreshing = FALSE
    /\ event = NoEvent
    /\ history = Some([calls |-> EmptyBag, commanded |-> EmptyDelta])

SpecFanHistory == InitFanHistory /\ [][NextFan]_vars

---------------------------------------------------------------------------
(* Properties of the encoder, checked under SpecEncode. *)

\* a call of _build_payload has returned a text
Built == pc = "done" /\ call.op = "_build_payload" /\ ~result.raised

\* the bytes of the frame _build_payload returned
BuiltFrame == B64Decode(result.text).bytes

\* the serial number with the leading device-id prefix, if it has one, removed
PrefixStripped(sn) ==
    IF StartsWith(sn, DevicePrefix) THEN Tail_(sn, Len(DevicePrefix) + 1) ELSE sn

\* the identifier found in a frame: the bytes counted by the byte after 0x0A
FrameIdentifier(frame) == SubSeq(frame, 8, 7 + frame[7])

\* C1: the text _build_payload returns for a serial number, a field code and a
\* value decodes to exactly one line, a DATA frame whose payload is 0x0A, len(sn),
\* the bytes of sn, the field code and the value, where sn is the serial number
\* without its leading prefix.
C1_RoundTrip ==
    (Built /\ call.value.some) =>
        LET sn == Utf8Encode(PrefixStripped(serial_number.val))
            d == DecodeGrpcResponse(result.text)
        IN /\ ~d.raised
           /\ Len(d.lines) = 1
           /\ d.lines[1].kind = "frame"
           /\ d.lines[1].type = 0
           /\ d.lines[1].type_str = "DATA"
           /\ d.lines[1].payload_str =
                  HexJoin(<<10, Len(sn)>> \o sn \o <<call.field, call.value.val>>)

C7_PrefixStripping ==
    Built => FrameIdentifier(BuiltFrame) = Utf8Encode(PrefixStripped(serial_number.val))

---------------------------------------------------------------------------
(* Properties of the decoder, checked under SpecDecode. *)

\* a call of _decode_grpc_response has ended
Decoded == pc = "done" /\ call.op = "_decode_grpc_response"

\* the line is the frame F: its type, its declared length and its payload
IsFrameOf(line, F) ==
    /\ line.kind = "frame"
    /\ line.type = F[1]
    /\ line.length = F[2] * 16777216 + F[3] * 65536 + F[4] * 256 + F[5]
    /\ (F[1] # 128 => line.payload_str = HexJoin(Tail_(F, 6)))

\* C5: the text base64(A) followed by base64(B), for frames A and B of at least
\* 5 bytes, decodes to exactly two frames, the first A and the second B.
C5_MultiFrame ==
    Decoded =>
        \A A \in SampleFrames, B \in SampleFrames :
            call.text = B64Encode(A) \o B64Encode(B) =>
                /\ ~result.raised
                /\ Len(result.lines) = 2
                /\ IsFrameOf(result.lines[1], A)
                /\ IsFrameOf(result.lines[2], B)

\* the line fits the candidate: a placeholder when the candidate fails base64
\* decoding or is shorter than 5 bytes, otherwise its frame (or, for a TRAILERS
\* payload that is not UTF-8, the placeholder of that error)
LineFits(line, frame_b64) ==
    LET dec == B64Decode(frame_b64) IN
    IF ~dec.ok THEN line.kind = "error"
    ELSE IF Len(dec.bytes) < 5 THEN line.kind = "too_short" /\ line.n = Len(dec.bytes)
    ELSE \/ IsFrameOf(line, dec.bytes)
         \/ /\ line.kind = "error"
            /\ dec.bytes[1] = 128
            /\ ~Utf8Decode(Tail_(dec.bytes, 6), <<>>).ok

\* C8: _decode_grpc_response never raises; the empty text gives the empty-body
\* line; any other text gives one line per candidate frame, in order: a
\* placeholder for a candidate that fails base64 decoding or has fewer than 5
\* bytes, and the other candidates, before or after it, decoded all the same.
C8_DecodeNeverRaises ==
    Decoded =>
        LET candidates == SplitBase64Frames(call.text) IN
        /\ ~result.raised
        /\ (call.text = <<>> => result.lines = <<EmptyResponseBody>>)
        /\ (call.text # <<>> =>
                /\ candidates # <<>>
                /\ Len(result.lines) = Len(candidates)
                /\ \A i \in 1..Len(candidates) : LineFits(result.lines[i], candidates[i]))

\* a candidate that fails to decode, before a frame that is decoded
C8_Witness ==
    /\ Decoded
    /\ ~result.raised
    /\ Len(result.lines) = 2
    /\ result.lines[1].kind = "error"
    /\ result.lines[2].kind = "frame"

---------------------------------------------------------------------------
(* Properties of the command client, checked under Spec. *)

\* a command has ended on a response with a 2xx status
Answered ==
    /\ pc = "done"
    /\ call.response.kind = "response"
    /\ IsSuccess(call.response.status)

\* the body text has a first candidate frame and it decodes to bytes
HasFirstFrame(text) ==
    /\ SplitBase64Frames(text) # <<>>
    /\ B64Decode(SplitBase64Frames(text)[1]).ok

\* the bytes of the first frame of a body text
FirstFrame(text) == B64Decode(SplitBase64Frames(text)[1]).bytes

\* the delta of each endpoint for the value byte v
ExpectedValueDelta(endpoint, v) ==
    CASE endpoint = "/SetPowerMode"       -> [powerMode |-> v]
      [] endpoint = "/SetFanSpeed"        -> [speedLevel |-> v]
      [] endpoint = "/SetLightLevel"      -> [lightLevel |-> v, lightIndicatorEnabled |-> TRUE]
      [] endpoint = "/SetLightIndicator"  -> [lightIndicatorEnabled |-> (v = 1)]
      [] endpoint = "/SetAutoMode"        -> [autoModeEnabled |-> (v = 1)]
      [] endpoint = "/SetAutoModeProfile" -> [autoModeProfile |-> v]
      [] endpoint = "/SetDefaultLocks"    -> [isLocksEnabled |-> (v = 1)]

\* the delta of each endpoint for a frame of exactly 5 bytes
ExpectedOffDelta(endpoint) ==
    CASE endpoint = "/SetLightIndicator" -> [lightIndicatorEnabled |-> FALSE]
      [] endpoint = "/SetAutoMode"       -> [autoModeEnabled |-> FALSE]
      [] endpoint = "/SetDefaultLocks"   -> [isLocksEnabled |-> FALSE]
      [] OTHER                           -> EmptyDelta

\* C2: when the first frame of a successful response is a DATA frame of more
\* than 6 bytes, the command returns the delta of its endpoint for the byte at
\* offset 6.
C2_ValueByte ==
    (Answered /\ HasFirstFrame(call.response.text)) =>
        LET f == FirstFrame(call.response.text) IN
        (Len(f) > 6 /\ f[1] = 0) =>
            result = ReturnDelta(ExpectedValueDelta(call.endpoint, f[7]))

\* set_light_level answered with the value 2
C2_Witness ==
    /\ Answered
    /\ call.op = "set_light_level"
    /\ HasFirstFrame(call.response.text)
    /\ Len(FirstFrame(call.response.text)) > 6
    /\ result.kind = "delta"
    /\ result.delta = [lightLevel |-> 2, lightIndicatorEnabled |-> TRUE]

\* C3: when the first frame of a successful response has exactly 5 bytes, the
\* command returns the "off" delta for SetLightIndicator, SetAutoMode and
\* SetDefaultLocks and an empty delta for the other four endpoints.
C3_HeaderOnly ==
    (Answered /\ HasFirstFrame(call.response.text)) =>
        (Len(FirstFrame(call.response.text)) = 5 =>
            result = ReturnDelta(ExpectedOffDelta(call.endpoint)))

\* set_lock answered with a frame of 5 bytes
C3_Witness ==
    /\ Answered
    /\ call.endpoint = "/SetDefaultLocks"
    /\ HasFirstFrame(call.response.text)
    /\ Len(FirstFrame(call.response.text)) = 5
    /\ result = ReturnDelta([isLocksEnabled |-> FALSE])

\* the first frame is not a DATA frame
NonData(f) == Len(f) >= 1 /\ f[1] # 0

\* the first frame is a DATA frame of 6 bytes or fewer, and not of 5
ShortData(f) == Len(f) >= 1 /\ f[1] = 0 /\ Len(f) <= 6 /\ Len(f) # 5

\* C4 as stated: a first frame that is not a DATA frame, whatever its length,
\* or a DATA frame of 6 bytes or fewer and not 5, gives an empty delta for
\* every endpoint.
C4_OtherShapes ==
    (Answered /\ HasFirstFrame(call.response.text)) =>
        LET f == FirstFrame(call.response.text) IN
        (NonData(f) \/ ShortData(f)) => result = ReturnDelta(EmptyDelta)

\* C4 as amended: a first frame that is not a DATA frame and not of 5 bytes, or
\* a DATA frame of 6 bytes or fewer and not 5, gives an empty delta for every
\* endpoint; a first frame of 5 bytes that is not a DATA frame gives what any
\* frame of 5 bytes gives.
C4_OtherShapesAmended ==
    (Answered /\ HasFirstFrame(call.response.text)) =>
        LET f == FirstFrame(call.response.text) IN
        /\ ((NonData(f) /\ Len(f) # 5) \/ ShortData(f)) =>
               result = ReturnDelta(EmptyDelta)
        /\ (NonData(f) /\ Len(f) = 5) =>
               result = ReturnDelta(ExpectedOffDelta(call.endpoint))

\* a frame of more than 6 bytes that is not a DATA frame, answered with an
\* empty delta
C4_Witness ==
    /\ Answered
    /\ HasFirstFrame(call.response.text)
    /\ NonData(FirstFrame(call.response.text))
    /\ Len(FirstFrame(call.response.text)) > 6
    /\ result = ReturnDelta(EmptyDelta)

\* one of the three commands that check their argument is in progress or ended
Validating ==
    /\ pc \in {"awaiting", "done"}
    /\ call.op \in {"set_fan_speed", "set_light_level", "set_auto_mode_profile"}

\* the domain of the argument of each of them
InDomain(op, n) ==
    CASE op = "set_fan_speed"         -> n \in 1..6
      [] op = "set_light_level"       -> n \in {1, 2, 3}
      [] op = "set_auto_mode_profile" -> n \in {1, 2, 3}

\* the endpoint of each of them
OwnEndpoint(op) ==
    CASE op = "set_fan_speed"         -> "/SetFanSpeed"
      [] op = "set_light_level"       -> "/SetLightLevel"
      [] op = "set_auto_mode_profile" -> "/SetAutoModeProfile"

\* the argument was rejected: None returned, nothing posted
Rejected == pc = "done" /\ result = ReturnNone /\ posted = <<>>

\* the argument was accepted: exactly one POST, to the command's own endpoint
Accepted == Len(posted) = 1 /\ posted[1].endpoint = OwnEndpoint(call.op)

\* C9 as stated: an argument outside the domain is rejected with None and no
\* request; every argument inside it results in exactly one request to the
\* command's own endpoint.
C9_Validation ==
    Validating =>
        IF InDomain(call.op, call.arg) THEN Accepted ELSE Rejected

\* C9 as amended: the same, the second half on a client whose serial number is
\* set.
C9_ValidationWithSerial ==
    Validating =>
        IF InDomain(call.op, call.arg)
        THEN Truthy(serial_number) => Accepted
        ELSE Rejected

\* set_fan_speed(6) has posted its request
C9_Witness ==
    /\ Validating
    /\ call.op = "set_fan_speed"
    /\ call.arg = 6
    /\ Accepted

\* C10: a command whose POST failed, on the network or with a status that is
\* not 2xx, returns None and does not raise.
C10_TransportErrors ==
    (/\ pc = "done"
     /\ \/ call.response.kind = "raised"
        \/ call.response.kind = "response" /\ ~IsSuccess(call.response.status))
        => result = ReturnNone

\* the body text has a first candidate frame and it fails base64 decoding
FirstCandidateFails(text) ==
    /\ SplitBase64Frames(text) # <<>>
    /\ ~B64Decode(SplitBase64Frames(text)[1]).ok

\* C11: on a response with a 2xx status, whatever the body text, the command
\* returns a delta or None and does not raise; when the first candidate frame
\* fails base64 decoding it returns None.
C11_DecodeErrors ==
    Answered =>
        /\ result.kind \in {"delta", "None"}
        /\ (FirstCandidateFails(call.response.text) => result = ReturnNone)

\* a body text that is one non-ASCII character (b64decode raises ValueError),
\* answered with None
C11_Witness ==
    /\ Answered
    /\ call.response.text = <<NONASCII>>
    /\ FirstCandidateFails(call.response.text)
    /\ result = ReturnNone

\* the argument of the command in progress passes the command's own check
ArgPasses ==
    call.op \in {"set_fan_speed", "set_light_level", "set_auto_mode_profile"}
        => InDomain(call.op, call.arg)

\* C12: on a client whose serial number is unset or empty, no command posts a
\* request, whatever its argument: a command whose argument passes its own
\* check ends with the ValueError of _build_payload, the others with None.
C12_MissingSerial ==
    ~Truthy(serial_number) =>
        /\ posted = <<>>
        /\ pc # "awaiting"
        /\ (pc = "done" =>
               result = IF ArgPasses THEN Raise("ValueError") ELSE ReturnNone)

\* set_light_level(2) on a client without a serial number has raised ValueError
C12_Witness ==
    /\ serial_number = None
    /\ pc = "done"
    /\ call.op = "set_light_level"
    /\ call.arg = 2
    /\ result = Raise("ValueError")
    /\ posted = <<>>

\* one of the four commands with a boolean argument is in progress or ended
BooleanCommand ==
    /\ pc \in {"awaiting", "done"}
    /\ call.op \in {"set_power", "set_light_indicator", "set_auto_mode", "set_lock"}

\* the endpoint of each of them
BooleanEndpoint(op) ==
    CASE op = "set_power"           -> "/SetPowerMode"
      [] op = "set_light_indicator" -> "/SetLightIndicator"
      [] op = "set_auto_mode"       -> "/SetAutoMode"
      [] op = "set_lock"            -> "/SetDefaultLocks"

\* the payload of the frame in the one request posted
PostedPayload == Tail_(B64Decode(posted[1].content).bytes, 6)

\* the identifier sub-message of the client: 0x0A, the length, the identifier
IdentifierSubMessage ==
    LET sn == SnPart(serial_number.val) IN <<10, Len(sn)>> \o sn

\* one request was posted, to the command's own endpoint
RequestSent == Len(posted) = 1 /\ posted[1].endpoint = BooleanEndpoint(call.op)

\* C13 as stated: each of the four boolean commands, for either argument,
\* posts one request; for "on" its payload is the identifier sub-message, the
\* field code 0x10 and a value byte, for "off" the identifier sub-message alone.
C13_BooleanCommands ==
    BooleanCommand =>
        /\ RequestSent
        /\ IF call.arg
           THEN /\ Len(PostedPayload) = Len(IdentifierSubMessage) + 2
                /\ SubSeq(PostedPayload, 1, Len(IdentifierSubMessage)) = IdentifierSubMessage
                /\ PostedPayload[Len(IdentifierSubMessage) + 1] = 16
           ELSE PostedPayload = IdentifierSubMessage

\* C13 as amended: on a client whose serial number is set, each of the four
\* boolean commands, for either argument, posts one request; set_power sends
\* the field code 0x10 with the value 2 for "on" and 3 for "off"; the other
\* three send the field code 0x10 with the value 1 for "on" and the identifier
\* sub-message alone for "off".
C13_BooleanCommandsAmended ==
    (BooleanCommand /\ Truthy(serial_number)) =>
        /\ RequestSent
        /\ PostedPayload =
               IF call.op = "set_power"
               THEN IdentifierSubMessage \o <<16, IF call.arg THEN 2 ELSE 3>>
               ELSE IF call.arg
               THEN IdentifierSubMessage \o <<16, 1>>
               ELSE IdentifierSubMessage

\* set_power(False) has posted the field code with the value 3
C13_Witness ==
    /\ BooleanCommand
    /\ Truthy(serial_number)
    /\ call.op = "set_power"
    /\ call.arg = FALSE
    /\ RequestSent
    /\ PostedPayload = IdentifierSubMessage \o <<16, 3>>

\* the first candidate frame of a body text, if it has one
FirstCandidate(text) ==
    IF SplitBase64Frames(text) = <<>> THEN None ELSE Some(SplitBase64Frames(text)[1])

\* C17: for every endpoint, two responses with a 2xx status whose body texts
\* have the same first candidate frame give the same result (the same delta,
\* or None both), whatever follows the first candidate in either text.
C17_FirstFrameOnly ==
    Answered =>
        LET first == FirstCandidate(call.response.text) IN
        \A text \in ResponseBodies :
            FirstCandidate(text) = first =>
                \A status \in SuccessStatuses :
                    SendCommand(call.endpoint, PostReturned(status, text)) = result

\* a frame followed by a text that fails to decode, answered with the delta
\* of the frame alone
C17_Witness ==
    /\ Answered
    /\ Len(SplitBase64Frames(call.response.text)) = 2
    /\ ~B64Decode(SplitBase64Frames(call.response.text)[2]).ok
    /\ result.kind = "delta"
    /\ result.delta # EmptyDelta
    /\ result = SendCommand(call.endpoint,
                            PostReturned(200, SplitBase64Frames(call.response.text)[1]))

\* C18: for every endpoint, a response with a 2xx status and an empty body
\* gives the empty delta, which is not the None returned on failure.
C18_EmptyBody ==
    (Answered /\ call.response.text = <<>>) =>
        /\ result = ReturnDelta(EmptyDelta)
        /\ result # ReturnNone

\* set_lock answered 204 with an empty body
C18_Witness ==
    /\ Answered
    /\ call.op = "set_lock"
    /\ call.response.status = 204
    /\ call.response.text = <<>>
    /\ result.kind = "delta"
    /\ result.delta = EmptyDelta

\* the state keys and the domain of each
InVocabulary(k, v) ==
    CASE k = "powerMode"             -> v \in {2, 3}
      [] k = "speedLevel"            -> v \in 1..6
      [] k = "lightLevel"            -> v \in 1..3
      [] k = "autoModeProfile"       -> v \in 1..3
      [] k = "lightIndicatorEnabled" -> v \in BOOLEAN
      [] k = "autoModeEnabled"       -> v \in BOOLEAN
      [] k = "isLocksEnabled"        -> v \in BOOLEAN
      [] OTHER                       -> FALSE

\* C19: every delta a command returns, whatever the body text of the
\* response, has only keys of the vocabulary, each with a value of its domain.
C19_Vocabulary ==
    (pc = "done" /\ result.kind = "delta") =>
        \A k \in DOMAIN result.delta : InVocabulary(k, result.delta[k])

---------------------------------------------------------------------------
(* Properties of the entities, the coordinator and the setup flow, checked *)
(* under SpecEntities.                                                     *)

\* a caller of the state fetch has been given the answer of its GET
Fetched ==
    /\ event.step = "answer"
    /\ event.handler \in {"validate_connection", "coordinator._async_update_data"}

\* the GET was answered with the status 401
Unauthorized == event.response.kind = "response" /\ event.response.status = 401

\* the authentication failure of each caller: InvalidAuth from the connection
\* validation, ConfigEntryAuthFailed (re-authentication) from the coordinator
AuthFailure(handler) ==
    IF handler = "validate_connection" THEN "InvalidAuth" ELSE "ConfigEntryAuthFailed"

\* C20: when the GET of the state fetch is answered with the status 401, the
\* connection validation and the refresh of the coordinator end with their
\* authentication failure; on a network failure or any other status they end
\* otherwise.
C20_AuthErrors ==
    Fetched => (event.outcome = AuthFailure(event.handler) <=> Unauthorized)

\* the step is one of an entity handler: its call of a command, or the
\* answer to its POST
EntityStep ==
    /\ event = NoEvent
    /\ event'.step \in {"call", "answer"}
    /\ event'.handler \notin {"validate_connection", "coordinator._async_update_data"}

\* what the command gave the handler is no delta with a key: None, an
\* exception, an empty delta, or nothing yet
NoUpdate(r) == r.kind # "delta" \/ r.delta = EmptyDelta

\* C14: a step of an entity handler whose command returned None (or raised)
\* or returned an empty delta leaves the snapshot and last_update_success as
\* they were and tells no listener; all it changes is that its own POST is no
\* longer awaited, so what follows is as if the command had not been issued.
C14_FailedCommands ==
    [][(EntityStep /\ NoUpdate(event'.result)) =>
           /\ data' = data
           /\ last_update_success' = last_update_success
           /\ ~event'.notified
           /\ refreshing' = refreshing
           /\ serial_number' = serial_number
           /\ commands' = IF event'.step = "answer"
                          THEN commands (-) SetToBag({event'.endpoint})
                          ELSE IF event'.outcome = "awaiting"
                          THEN commands (+) SetToBag({event'.endpoint})
                          ELSE commands]_vars

\* after an earlier command had changed the snapshot, a command was answered
\* 200 with a text that fails to decode and returned None
C14_Witness ==
    /\ event.step = "answer"
    /\ event.endpoint = "/SetLightLevel"
    /\ event.response.status = 200
    /\ event.result = ReturnNone
    /\ ~event.notified
    /\ "remote" \in DOMAIN data.val
    /\ data.val.remote.powerMode = 1

\* update_from_command was given a delta with a key, on a snapshot that is
\* not empty, and returned
Merged ==
    /\ event = NoEvent
    /\ event'.step = "answer"
    /\ event'.update_data.some
    /\ event'.update_data.val # EmptyDelta
    /\ data.val # EmptyDelta
    /\ event'.outcome = "returned"

\* C15: when update_from_command merges a delta, the snapshot it publishes
\* has the value of the delta under every key of the delta in "remote", the
\* previous value under every other key of "remote" and under every key
\* outside "remote", and it is a new object: the snapshot object published
\* before is not changed.
C15_MergeNeverReplace ==
    [][Merged =>
           LET delta == event'.update_data.val
               old == data.val
               new == data'.val
           IN /\ event'.notified
              /\ data'.obj # data.obj
              /\ DOMAIN new = DOMAIN old
              /\ \A k \in DOMAIN old \ {"remote"} : new[k] = old[k]
              /\ DOMAIN new.remote = DOMAIN old.remote \cup DOMAIN delta
              /\ \A k \in DOMAIN delta : new.remote[k] = delta[k]
              /\ \A k \in DOMAIN old.remote \ DOMAIN delta :
                     new.remote[k] = old.remote[k]]_vars

\* the delta of set_light_level has been merged: its two keys are set, and
\* powerMode, the speed table and modelLabel are as they were
C15_Witness ==
    /\ event.step = "answer"
    /\ event.notified
    /\ event.update_data = Some([lightLevel |-> 1, lightIndicatorEnabled |-> TRUE])
    /\ "remote" \in DOMAIN data.val
    /\ data.val.remote.lightLevel = 1
    /\ data.val.remote.lightIndicatorEnabled = TRUE
    /\ data.val.remote.powerMode = 2
    /\ data.val.remote.manSpeedTable = <<10, 25, 40, 60, 80, 100>>
    /\ data.val.modelLabel = "HealthPro"

\* the deltas a handler can hand to update_from_command after a command to
\* this endpoint: the "off" delta, the delta of a value byte, and for
\* SetFanSpeed that delta with the speedPercent of the level
WholeDeltas(endpoint, snapshot) ==
    {ExpectedOffDelta(endpoint)}
        \cup {ExpectedValueDelta(endpoint, v) : v \in ResponseValues}
        \cup {[speedLevel |-> v, speedPercent |-> snapshot.remote.manSpeedTable[v]] :
                  v \in {x \in ResponseValues :
                             /\ endpoint = "/SetFanSpeed"
                             /\ "manSpeedTable" \in DOMAIN snapshot.remote
                             /\ x \in 1..Len(snapshot.remote.manSpeedTable)}}

\* the snapshot with the whole of the delta set in "remote"
WithDelta(snapshot, delta) ==
    [snapshot EXCEPT !.remote =
        [k \in DOMAIN snapshot.remote \cup DOMAIN delta |->
            IF k \in DOMAIN delta THEN delta[k] ELSE snapshot.remote[k]]]

\* C16: whatever refresh or POST is awaited meanwhile, the snapshot the
\* listeners are told of is, after a refresh, a device as the state API
\* reported it (or, after a failed refresh, the snapshot already published),
\* and after a command the snapshot published before with the whole delta of
\* that command set: for SetLightLevel both lightLevel and
\* lightIndicatorEnabled.
C16_NoTornSnapshot ==
    [][event'.notified =>
           IF event'.handler = "coordinator._async_update_data"
           THEN data'.val \in DeviceSnapshots \/ data' = data
           ELSE /\ "remote" \in DOMAIN data.val
                /\ \E delta \in WholeDeltas(event'.endpoint, data.val) :
                       data'.val = WithDelta(data.val, delta)
                /\ event'.endpoint = "/SetLightLevel" =>
                       /\ data'.val.remote.lightIndicatorEnabled = TRUE
                       /\ data'.val.remote.lightLevel = event'.result.delta.lightLevel]_vars

\* while a refresh was awaited, the answer to set_light_level was merged
\* into a snapshot in which the light indicator had been turned off
C16_Witness ==
    /\ refreshing
    /\ event.notified
    /\ event.endpoint = "/SetLightLevel"
    /\ "remote" \in DOMAIN data.val
    /\ data.val.remote.lightLevel = 1
    /\ data.val.remote.lightIndicatorEnabled = TRUE
    /\ data.val.remote.autoModeEnabled = TRUE

\* C23: update_from_command, given a delta with a key while the snapshot is
\* not empty (with or without a "remote" mapping), raises nothing and
\* publishes a snapshot whose "remote" has the keys of the delta.
C23_NeverRaises ==
    (/\ event.step = "answer"
     /\ event.update_data.some
     /\ event.update_data.val # EmptyDelta
     /\ data.val # EmptyDelta) =>
        /\ event.outcome = "returned"
        /\ event.notified
        /\ "remote" \in DOMAIN data.val
        /\ DOMAIN event.update_data.val \subseteq DOMAIN data.val.remote

---------------------------------------------------------------------------
(* Properties of the fan entity, checked under SpecFan. *)

\* ceil(6 * p / 100): the least n with 6 * p <= 100 * n
CeilOfSixHundredths(p) == CHOOSE n \in 0..(p + 1) : 100 * (n - 1) < 6 * p /\ 6 * p <= 100 * n

\* C21: async_set_percentage(0) calls set_power(False) and nothing else: one
\* POST to the power endpoint and none to the fan-speed endpoint; for p in
\* 1..100 it calls set_fan_speed(ceil(6 * p / 100)) and nothing else, a level
\* in 1..6 that passes the check of set_fan_speed and is no less than the
\* level of any smaller percentage. (The POST is made when the client has a
\* serial number.)
C21_PercentageMapping ==
    [][event'.handler = "fan.async_set_percentage" =>
       \A p \in AllPercentages :
           FanSetPercentage(p) =>
               /\ event'.step = "call"
               /\ IF p = 0
                  THEN /\ event'.op = "set_power"
                       /\ event'.arg = Some(FALSE)
                       /\ commands' = IF serial_number.some
                                      THEN commands (+) SetToBag({ENDPOINT_POWER})
                                      ELSE commands
                  ELSE /\ event'.op = "set_fan_speed"
                       /\ event'.arg = Some(CeilOfSixHundredths(p))
                       /\ event'.arg.val \in 1..6
                       /\ ValidFanSpeed(event'.arg.val)
                       /\ event'.result # ReturnNone
                       /\ \A q \in 1..p : SpeedLevelOf(q) <= event'.arg.val
                       /\ commands' = IF serial_number.some
                                      THEN commands (+) SetToBag({ENDPOINT_FAN_SPEED})
                                      ELSE commands]_vars

\* async_set_percentage has posted set_fan_speed(2), the level of the
\* percentages 17 to 33
C21_Witness ==
    /\ event.handler = "fan.async_set_percentage"
    /\ event.op = "set_fan_speed"
    /\ event.arg = Some(2)
    /\ event.outcome = "awaiting"
    /\ BagIn(ENDPOINT_FAN_SPEED, commands)

---------------------------------------------------------------------------
(* Properties of sequences of steps, checked under SpecFanHistory. *)

\* the step ends a refresh: the answer to its GET has come
RefreshEnds ==
    /\ event'.handler = "coordinator._async_update_data"
    /\ event'.step = "answer"

\* the snapshot has this value under this key of "remote"
RemoteHas(snapshot, k, v) ==
    /\ "remote" \in DOMAIN snapshot.val
    /\ DictGet(snapshot.val.remote, k) = Some(v)

\* C22: a key that a command has set in the snapshot keeps the value the
\* command set, through every step and through the end of a refresh whose
\* fetch was in flight when the command was posted; only a later command or
\* a refresh that began after the command was posted changes it.
C22_NoStaleOverwrite ==
    [][history.some =>
           /\ \A k \in DOMAIN history'.val.commanded :
                  RemoteHas(data', k, history'.val.commanded[k])
           /\ RefreshEnds =>
                  \A k \in DOMAIN history.val.commanded :
                      RemoteHas(data', k, history.val.commanded[k])]_vars

\* the response gives back the value the call sent
Echoes(task, r) ==
    /\ task.value.some
    /\ r.kind = "delta"
    /\ r.delta = ExpectedValueDelta(task.endpoint, task.value.val)

\* C24: async_turn_on, whatever its percentage, calls no set_power(False),
\* and when the answer to its command gives back the value it sent, the
\* snapshot has powerMode 2 and is_on is true.
C24_FanTurnOn ==
    [][history.some =>
           /\ (event'.handler = "fan.async_turn_on" /\ event'.step = "call") =>
                  ~(event'.op = "set_power" /\ event'.arg = Some(FALSE))
           /\ event'.step = "answer" =>
                  \A task \in BagToSet(history.val.calls) :
                      (/\ task.handler = "fan.async_turn_on"
                       /\ history'.val.calls = history.val.calls (-) SetToBag({task})
                       /\ Echoes(task, event'.result)) =>
                          /\ RemoteHas(data', "powerMode", 2)
                          /\ IsOn(data', last_update_success') = Some(TRUE)]_vars

=============================================================================
